---- MODULE Spec2Model ----
(***************************************************************************)
(* Model of the BTC 15-minute arbitrage bot: the Risk Manager              *)
(* (risk_manager.py), the fill estimator and arbitrage detector, and the   *)
(* execution controller (simple_arb_bot.py, trading.py, config.py).        *)
(*                                                                         *)
(* Numbers.  Python floats are modelled by exact integers:                 *)
(*   - a price is a number of cents (0.46 -> 46);                          *)
(*   - a pair cost, an investment, a profit and a balance of the bot are   *)
(*     numbers of 1/100000 units (1.00 -> 100000), so that the safety      *)
(*     buffer 1 + 0.004 is the exact factor 1004 on a price in cents;      *)
(*   - a utilization fraction is a percentage (0.5 -> 50);                 *)
(*   - a VWAP is the exact fraction num / den.                             *)
(* An Optional value is a set: {} is None, {v} is the value v.             *)
(***************************************************************************)
EXTENDS Integers, Sequences, FiniteSets, TLC

VARIABLES
    today,              \* datetime.utcnow() as a day number (UTC date)
    limits,             \* RiskManager.limits   (RiskLimits)
    state,              \* RiskManager.state    (DailyRiskState)
    last_call,          \* the last call made to the RiskManager, with its result
    settings,           \* the Settings the bot runs with
    up_book,            \* order book of the yes token as last fetched
    down_book,          \* order book of the no token as last fetched
    fill_call,          \* the last call of _compute_buy_fill, with its result
    arb_call,           \* the last call of check_arbitrage, with its result
    env,                \* the environment load_settings reads (.env)
    constructed,        \* SimpleArbitrageBot.__init__ returned without raising
    fail_count,         \* SimpleArbitrageBot.fail_count
    elapsed,            \* time.time() - SimpleArbitrageBot._last_execution_ts
    trades_executed,    \* SimpleArbitrageBot.trades_executed
    positions,          \* SimpleArbitrageBot.positions
    total_invested,     \* SimpleArbitrageBot.total_invested
    cached_balance,     \* SimpleArbitrageBot.cached_balance
    sim_balance,        \* SimpleArbitrageBot.sim_balance (dry run only)
    last_cycle,         \* what the last execute_arbitrage call did
    attempt,            \* what the last execute_arbitrage call found and was answered
    wait,               \* a call of trading.wait_for_terminal_order
    shutdown,           \* GracefulShutdown.SHUTDOWN
    wss,                \* MarketWssClient.run: its position, backoff and order books
    mon                 \* SimpleArbitrageBot.monitor: its mode and position

riskVars == <<today, limits, state, last_call>>

fillVars == <<settings, up_book, down_book, fill_call, arb_call>>

botVars == <<env, constructed, fail_count, elapsed, trades_executed, positions,
             total_invested, cached_balance, sim_balance, last_cycle, attempt>>

streamVars == <<shutdown, wss, mon>>

ioVars == <<wait, shutdown, wss, mon>>

vars == <<riskVars, fillVars, botVars, ioVars>>

-----------------------------------------------------------------------------
(* Optional values *)

None == {}

Some(v) == {v}

Val(o) == CHOOSE v \in o : TRUE

Abs(x) == IF x < 0 THEN -x ELSE x

-----------------------------------------------------------------------------
(* Bounds of the model *)

MaxDay == 2

MaxTradesCount == 3

MaxAbsPnl == 90

MaxLevels == 2

MaxPositions == 2

MaxElapsed == 2

\* the days a bot run spans
MaxBotDay == 1

-----------------------------------------------------------------------------
(* risk_manager.py *)

RiskLimits(mdl, mtd, mps, mbr, mbu) ==
    [max_daily_loss |-> mdl, max_trades_per_day |-> mtd,
     max_position_size |-> mps, min_balance_required |-> mbr,
     max_balance_utilization |-> mbu]

DailyRiskState(d) == [date |-> d, trades_count |-> 0, net_pnl |-> 0, invested |-> 0]

\* a rollover that takes the new date and keeps the running PnL
RolloverKeepsPnl(st, day) ==
    IF st.date # day THEN [DailyRiskState(day) EXCEPT !.net_pnl = st.net_pnl] ELSE st

\* a rollover that resets on every call
RolloverAlways(st, day) == DailyRiskState(day)

\* _rollover_if_needed: the state this call works on
Rollover(st, day) == IF st.date # day THEN DailyRiskState(day) ELSE st

\* the reasons can_trade returns; "" is (True, "")
Allowed == ""

ReasonBalance == "Balance too low"

ReasonUtilization == "Trade cost > utilization limit"

ReasonTradeCap == "Hit daily trade cap"

ReasonPosition == "Trade too large"

ReasonDailyLoss == "Daily PnL < limit"

\* can_trade with the position-size check ahead of the trade-count check
CanTradePositionFirst(lim, st, trade_size, current_balance) ==
    IF current_balance < lim.min_balance_required
      THEN ReasonBalance
    ELSE IF trade_size * 100 > current_balance * lim.max_balance_utilization
      THEN ReasonUtilization
    ELSE IF lim.max_position_size # None
            /\ trade_size > Val(lim.max_position_size)
      THEN ReasonPosition
    ELSE IF lim.max_trades_per_day # None
            /\ st.trades_count >= Val(lim.max_trades_per_day)
      THEN ReasonTradeCap
    ELSE IF lim.max_daily_loss # None
            /\ st.net_pnl < -Abs(Val(lim.max_daily_loss))
      THEN ReasonDailyLoss
    ELSE Allowed

OrZero(o) == IF o = None THEN 0 ELSE Val(o)

\* can_trade reading an unset limit as the number zero
CanTradeNoneAsZero(lim, st, trade_size, current_balance) ==
    IF current_balance < lim.min_balance_required
      THEN ReasonBalance
    ELSE IF trade_size * 100 > current_balance * lim.max_balance_utilization
      THEN ReasonUtilization
    ELSE IF st.trades_count >= OrZero(lim.max_trades_per_day)
      THEN ReasonTradeCap
    ELSE IF trade_size > OrZero(lim.max_position_size)
      THEN ReasonPosition
    ELSE IF st.net_pnl < -Abs(OrZero(lim.max_daily_loss))
      THEN ReasonDailyLoss
    ELSE Allowed

\* can_trade with a trade cap that lets one trade too many through
CanTradeCapExceeded(lim, st, trade_size, current_balance) ==
    IF current_balance < lim.min_balance_required
      THEN ReasonBalance
    ELSE IF trade_size * 100 > current_balance * lim.max_balance_utilization
      THEN ReasonUtilization
    ELSE IF lim.max_trades_per_day # None
            /\ st.trades_count > Val(lim.max_trades_per_day)
      THEN ReasonTradeCap
    ELSE IF lim.max_position_size # None
            /\ trade_size > Val(lim.max_position_size)
      THEN ReasonPosition
    ELSE IF lim.max_daily_loss # None
            /\ st.net_pnl < -Abs(Val(lim.max_daily_loss))
      THEN ReasonDailyLoss
    ELSE Allowed

\* can_trade after the rollover: st is the rolled-over state
CanTrade(lim, st, trade_size, current_balance) ==
    IF current_balance < lim.min_balance_required
      THEN ReasonBalance
    ELSE IF trade_size * 100 > current_balance * lim.max_balance_utilization
      THEN ReasonUtilization
    ELSE IF lim.max_trades_per_day # None
            /\ st.trades_count >= Val(lim.max_trades_per_day)
      THEN ReasonTradeCap
    ELSE IF lim.max_position_size # None
            /\ trade_size > Val(lim.max_position_size)
      THEN ReasonPosition
    ELSE IF lim.max_daily_loss # None
            /\ st.net_pnl < -Abs(Val(lim.max_daily_loss))
      THEN ReasonDailyLoss
    ELSE Allowed

\* a record_trade_result that books the trade twice
RecordTradeTwice(st, profit) ==
    [st EXCEPT !.trades_count = @ + 2, !.net_pnl = @ + 2 * profit]

\* a record_trade_result that books the profit as a loss
RecordTradeAsLoss(st, profit) ==
    [st EXCEPT !.trades_count = @ + 1, !.net_pnl = @ - profit]

\* record_trade_result after the rollover
RecordTradeResult(st, profit) ==
    [st EXCEPT !.trades_count = @ + 1, !.net_pnl = @ + profit]

\* an adjustment that replaces the running PnL
AdjustReplacesPnl(st, realized_profit) ==
    [st EXCEPT !.net_pnl = realized_profit]

\* adjust_actual_pnl after the rollover
AdjustActualPnl(st, realized_profit) ==
    [st EXCEPT !.net_pnl = @ + realized_profit]

\* get_daily_stats after the rollover
GetDailyStats(st) == [date |-> st.date, trades |-> st.trades_count, net_pnl |-> st.net_pnl]

NoArg == 0

\* a call record: the method, the UTC date of the call, its arguments, the
\* DailyRiskState the call found, and what it returned
Call(op, day, a, b, found, res) ==
    [op |-> op, date |-> day, arg |-> a, balance |-> b, before |-> found, result |-> res]

\* the same for get_daily_stats, whose result is the snapshot
StatsCall(day, found, snapshot) ==
    [op |-> "get_daily_stats", date |-> day, arg |-> NoArg, balance |-> NoArg,
     before |-> found, result |-> Allowed, stats |-> snapshot]

NoCall == Call("none", 0, NoArg, NoArg, DailyRiskState(0), Allowed)

-----------------------------------------------------------------------------
(* config.py: the Settings fields the engine reads *)

\* one unit of money (1.00) in the model's 1/100000 units
MoneyUnit == 100000

\* 1 + buffer, buffer = 0.004, as the factor from cents to 1/100000 units
BufferFactor == 1004

\* the .env keys the engine's settings come from; None is a key that is not set
Env(os, tpc, cd, dry, mdl, mps, mtd, mbr, mbu, sim) ==
    [ORDER_SIZE |-> os, TARGET_PAIR_COST |-> tpc, COOLDOWN_SECONDS |-> cd,
     DRY_RUN |-> dry, MAX_DAILY_LOSS |-> mdl, MAX_POSITION_SIZE |-> mps,
     MAX_TRADES_PER_DAY |-> mtd, MIN_BALANCE_REQUIRED |-> mbr,
     MAX_BALANCE_UTILIZATION |-> mbu, SIM_BALANCE |-> sim]

EmptyEnv == Env(None, None, None, None, None, None, None, None, None, None)

\* _get(key, default)
Get(v, default) == IF v = None THEN default ELSE Val(v)

\* load_settings: the Settings fields the engine reads.  sim_start_balance is
\* not a field of Settings: None is the absent attribute, which only a caller's
\* own settings object carries.
LoadSettings(e) ==
    [order_size |-> Get(e.ORDER_SIZE, 1),
     target_pair_cost |-> Get(e.TARGET_PAIR_COST, MoneyUnit),
     cooldown_seconds |-> Get(e.COOLDOWN_SECONDS, 2),
     dry_run |-> Get(e.DRY_RUN, TRUE),
     max_daily_loss |-> Get(e.MAX_DAILY_LOSS, 0),
     max_position_size |-> Get(e.MAX_POSITION_SIZE, 0),
     max_trades_per_day |-> Get(e.MAX_TRADES_PER_DAY, 0),
     min_balance_required |-> Get(e.MIN_BALANCE_REQUIRED, 0),
     max_balance_utilization |-> Get(e.MAX_BALANCE_UTILIZATION, 100),
     sim_balance |-> Get(e.SIM_BALANCE, 100 * MoneyUnit),
     sim_start_balance |-> None]

\* the defaults of load_settings
DefaultSettings == LoadSettings(EmptyEnv)

-----------------------------------------------------------------------------
(* simple_arb_bot.py: _compute_buy_fill and check_arbitrage *)

Level(px, sz) == [px |-> px, sz |-> sz]

Book(asks) == [asks |-> asks]

EmptyBook == Book(<<>>)

Min(a, b) == IF a < b THEN a ELSE b

\* the for loop of _compute_buy_fill from level i on
RECURSIVE FillLoop(_, _, _, _, _, _)
FillLoop(asks, size, i, filled, cost, worst) ==
    IF i > Len(asks)
      THEN [filled |-> filled, cost |-> cost, worst |-> worst]
      ELSE LET px == asks[i].px
               sz == asks[i].sz
               take == Min(size - filled, sz)
           IN  IF filled + take >= size
                 THEN [filled |-> filled + take, cost |-> cost + take * px,
                       worst |-> Some(px)]
                 ELSE FillLoop(asks, size, i + 1, filled + take, cost + take * px,
                               Some(px))

\* the loop without its break
RECURSIVE FillLoopNoBreak(_, _, _, _, _, _)
FillLoopNoBreak(asks, size, i, filled, cost, worst) ==
    IF i > Len(asks)
      THEN [filled |-> filled, cost |-> cost, worst |-> worst]
      ELSE LET px == asks[i].px
               sz == asks[i].sz
               take == Min(size - filled, sz)
           IN  FillLoopNoBreak(asks, size, i + 1, filled + take, cost + take * px,
                               Some(px))

\* a VWAP is the fraction num / den
Fraction(n, d) == [num |-> n, den |-> d]

FracLeq(a, b) == a.num * b.den <= b.num * a.den

\* _compute_buy_fill that keeps walking after the size is filled
ComputeBuyFillNoBreak(asks, size) ==
    LET r == FillLoopNoBreak(asks, size, 1, 0, 0, None) IN
    IF r.filled < size THEN None
    ELSE Some([vwap |-> Fraction(r.cost, size), worst |-> Val(r.worst)])

\* _compute_buy_fill: None, or {vwap, worst}
ComputeBuyFill(asks, size) ==
    LET r == FillLoop(asks, size, 1, 0, 0, None) IN
    IF r.filled < size THEN None
    ELSE Some([vwap |-> Fraction(r.cost, size), worst |-> Val(r.worst)])

Opportunity(fu, fd, raw_cost, adj_cost, size, expected_profit, investment) ==
    [price_up |-> fu.worst, price_down |-> fd.worst,
     vwap_up |-> fu.vwap, vwap_down |-> fd.vwap,
     raw_cost |-> raw_cost, total_cost |-> adj_cost, order_size |-> size,
     expected_profit |-> expected_profit, total_investment |-> investment,
     profit_pct |-> (MoneyUnit - adj_cost) * 100]

\* check_arbitrage deciding on the VWAPs
CheckArbitrageOnVwap(ub, db, set) ==
    LET size == set.order_size
        fill_up == ComputeBuyFill(ub.asks, size)
        fill_down == ComputeBuyFill(db.asks, size)
    IN  IF fill_up = None \/ fill_down = None THEN None
        ELSE LET fu == Val(fill_up)
                 fd == Val(fill_down)
                 raw_cost == fu.worst + fd.worst
                 adj_cost == raw_cost * BufferFactor
                 investment == adj_cost * size
             IN  IF (fu.vwap.num + fd.vwap.num) * BufferFactor > set.target_pair_cost * size
                   THEN None
                   ELSE Some(Opportunity(fu, fd, raw_cost, adj_cost, size,
                                         size * 2 * MoneyUnit - investment, investment))

\* check_arbitrage on the two books: None, or the opportunity
CheckArbitrage(ub, db, set) ==
    LET size == set.order_size
        fill_up == ComputeBuyFill(ub.asks, size)
        fill_down == ComputeBuyFill(db.asks, size)
    IN  IF fill_up = None \/ fill_down = None THEN None
        ELSE LET fu == Val(fill_up)
                 fd == Val(fill_down)
                 raw_cost == fu.worst + fd.worst
                 adj_cost == raw_cost * BufferFactor
                 investment == adj_cost * size
             IN  IF adj_cost > set.target_pair_cost THEN None
                 ELSE Some(Opportunity(fu, fd, raw_cost, adj_cost, size,
                                       size * 2 * MoneyUnit - investment, investment))

\* the calls of the two functions, with their results
FillCall(asks, size, res) == [asks |-> asks, size |-> size, result |-> res]

NoFillCall == FillCall(<<>>, 1, None)

ArbCall(ub, db, res) == [up |-> ub, down |-> db, result |-> res]

NoArbCall == ArbCall(EmptyBook, EmptyBook, None)

-----------------------------------------------------------------------------
(* simple_arb_bot.py: what one execute_arbitrage call did *)

\* outcome: how the call ended; slept: seconds of time.sleep; requests: the
\* HTTP requests sent, in order; placed: orders the venue accepted for each leg;
\* cancels: the legs whose order id a cancel was attempted for; escaped: an
\* exception left execute_arbitrage
Cycle(outcome, slept, requests, up, down, cancels, escaped) ==
    [outcome |-> outcome, slept |-> slept, requests |-> requests,
     placed |-> [up |-> up, down |-> down], cancels |-> cancels, escaped |-> escaped]

NoCycle == Cycle("none", 0, <<>>, 0, 0, {}, FALSE)

\* the bot and its RiskManager as a call of execute_arbitrage finds them
Found ==
    [fail_count |-> fail_count, trades_executed |-> trades_executed,
     total_invested |-> total_invested, positions |-> positions,
     state |-> state, today |-> today]

\* found: the state the call started from; gate: its can_trade call (NoCall when
\* it made none); ids: whether extract_order_id gave an id for each leg; fills:
\* what the polling of each leg came to; cancel_replies: what the venue answered
\* to each cancel request
Attempt(gate, up_id, dn_id, fills, cancel_replies) ==
    [found |-> Found, gate |-> gate, ids |-> [up |-> up_id, down |-> dn_id],
     fills |-> fills, cancel_replies |-> cancel_replies]

\* a call that ends before the risk gate
Ungated == Attempt(NoCall, FALSE, FALSE, <<>>, <<>>)

-----------------------------------------------------------------------------
(* trading.py: wait_for_terminal_order *)

\* the polls one call can make before its timeout has elapsed
MaxPolls == 3

\* an order record as GET /orders/{id} returns it
OrderRecord(filled, status) == [filled_size |-> filled, status |-> status]

\* {"status": "timeout", "filled_size": 0.0}
TimeoutRecord == OrderRecord(0, "timeout")

TerminalStatuses == {"canceled", "rejected", "expired"}

\* pc: where the call is; requested_size: its argument; polls: requests made;
\* last_seen: the last reply read; result: the record returned; why: the return
\* statement taken
Waiting(pc, req, polls, last_seen, result, why) ==
    [pc |-> pc, requested_size |-> req, polls |-> polls, last_seen |-> last_seen,
     result |-> result, why |-> why]

NotWaiting == Waiting("idle", 0, 0, None, None, "none")

\* return last_seen or {"status": "timeout", "filled_size": 0.0}
AtTimeout(last_seen) == IF last_seen # None THEN Val(last_seen) ELSE TimeoutRecord

-----------------------------------------------------------------------------
(* wss_market.py: MarketWssClient *)

\* one second of reconnect delay, in units of 1/1024 s: backoff * 1.5 is exact
\* for every backoff below the cap that the jitters 0 and 1 lead to
BackoffUnit == 1024

\* self._min_reconnect = 1.0
MinReconnect == BackoffUnit

\* self._max_reconnect = 10.0
MaxReconnect == 10 * BackoffUnit

\* random.uniform(0, 1): its two ends
Jitters == {0, BackoffUnit}

\* a backoff that grows without the cap
BackoffUncapped(backoff, jitter) == (backoff * 3) \div 2 + jitter

\* backoff = min(backoff * 1.5 + random.uniform(0, 1), self._max_reconnect)
BackoffAfter(backoff, jitter) == Min((backoff * 3) \div 2 + jitter, MaxReconnect)

\* asset_ids=[self.yes_token_id, self.no_token_id]
AssetIds == {"yes", "no"}

\* OrderBookSide()
OrderBookSide(bids, asks) == [bids |-> bids, asks |-> asks]

\* self.order_books after __init__
EmptyOrderBooks == [a \in AssetIds |-> OrderBookSide(<<>>, <<>>)]

\* the "bids" or "asks" of a message: absent, not a list of number pairs, or a
\* list of (price, size) pairs
Payload(kind, levels) == [kind |-> kind, levels |-> levels]

Absent == Payload("absent", <<>>)

Unreadable == Payload("malformed", <<>>)

\* [(float(p), float(s)) for p, s in levels if float(s) > 0]
RECURSIVE PositiveLevels(_)
PositiveLevels(levels) ==
    IF levels = <<>> THEN <<>>
    ELSE IF Head(levels)[2] > 0
      THEN <<Head(levels)>> \o PositiveLevels(Tail(levels))
      ELSE PositiveLevels(Tail(levels))

\* an update that empties a side the message does not carry
SideCleared(side, payload) ==
    IF payload.kind = "levels" THEN PositiveLevels(payload.levels) ELSE <<>>

\* one side of the book after a message's payload for it
SideAfter(side, payload) ==
    IF payload.kind = "levels" THEN PositiveLevels(payload.levels) ELSE side

\* a stream message.  json: "unparseable" (json.loads raises), "not_object"
\* (a JSON list, string, number or null) or "object"; type: its "type"; asset:
\* its "assetId" (a tracked id, "unknown", "missing", or "unhashable" for a
\* non-empty list or object)
Message(json, type, asset, bids, asks) ==
    [json |-> json, type |-> type, asset |-> asset, bids |-> bids, asks |-> asks]

\* the body of `async for msg in ws`: "dropped" (continue), "notified" (yield),
\* or "aborted" (an exception leaves the loop)
HandleMessage(msg, books) ==
    IF msg.json = "unparseable"
      THEN [outcome |-> "dropped", books |-> books]
    ELSE IF msg.json = "not_object"
      THEN [outcome |-> "aborted", books |-> books]
    ELSE IF msg.type # "orderbookUpdate"
      THEN [outcome |-> "dropped", books |-> books]
    ELSE IF msg.asset = "missing"
      THEN [outcome |-> "dropped", books |-> books]
    ELSE IF msg.asset = "unhashable"
      THEN [outcome |-> "aborted", books |-> books]
    ELSE IF msg.asset \notin AssetIds
      THEN [outcome |-> "dropped", books |-> books]
    ELSE [outcome |-> "notified",
          books |-> [books EXCEPT ![msg.asset] =
                       OrderBookSide(SideAfter(@.bids, msg.bids),
                                     SideAfter(@.asks, msg.asks))]]

\* the message handled last, whether it changed an order book, and what
\* became of it
Handled(msg, changed, outcome) == [msg |-> msg, changed |-> changed, outcome |-> outcome]

NoMessage == Message("none", "", "missing", Absent, Absent)

\* pc: "connecting" (top of the while loop), "streaming" (waiting in async
\* for), "yielded" (suspended at yield), "sleeping" (asyncio.sleep(backoff)),
\* "returned" or "raised"
Stream(pc, backoff, books, last) ==
    [pc |-> pc, backoff |-> backoff, order_books |-> books, last |-> last]

\* run() at its first statement
StreamStart ==
    Stream("connecting", MinReconnect, EmptyOrderBooks,
           Handled(NoMessage, FALSE, "none"))

\* monitor: the drive mode ("wss" or "poll"), interval_seconds, where it is
\* ("idle", "waiting" for the stream, "testing" the while condition,
\* "iterating", "sleeping", "returned", "raised"), the order-status waits its
\* iteration has made, and the iterations started with the shutdown flag set
Monitor(mode, interval, pc, legs, late) ==
    [mode |-> mode, interval |-> interval, pc |-> pc, legs |-> legs, late |-> late]

NoMonitor == Monitor("none", 0, "idle", 0, 0)

\* nothing of the network side is running
IoIdle ==
    /\ wait = NotWaiting
    /\ shutdown = FALSE
    /\ wss = StreamStart
    /\ mon = NoMonitor

-----------------------------------------------------------------------------
(* simple_arb_bot.py: the bot and its execution cycle *)

\* if self.fail_count >= 3
FailThreshold == 3

\* time.sleep(60)
CoolingOffSleep == 60

\* the RiskLimits __init__ builds from the settings
BotRiskLimits(set) ==
    RiskLimits(Some(set.max_daily_loss), Some(set.max_trades_per_day),
               Some(set.max_position_size), set.min_balance_required,
               set.max_balance_utilization)

\* __init__ raises in dry-run mode when the settings have no sim_start_balance
Constructs(set) == ~set.dry_run \/ set.sim_start_balance # None

\* the clock after d more seconds, as far as the cooldown check can tell
Later(el, d) == Min(el + d, MaxElapsed)

\* a cooling-off that sleeps and keeps the counter
CoolOffKeepsCount(fc, el) ==
    IF fc >= FailThreshold
      THEN [fail_count |-> fc, elapsed |-> Later(el, CoolingOffSleep), slept |-> CoolingOffSleep]
      ELSE [fail_count |-> fc, elapsed |-> el, slept |-> 0]

\* the cooling-off at the head of execute_arbitrage: the failure counter, the
\* elapsed time and the seconds slept with which the call goes on
CoolOff(fc, el) ==
    IF fc >= FailThreshold
      THEN [fail_count |-> 0, elapsed |-> Later(el, CoolingOffSleep), slept |-> CoolingOffSleep]
      ELSE [fail_count |-> fc, elapsed |-> el, slept |-> 0]

\* if cd and (now - self._last_execution_ts) < cd
CooldownActive(set, el) == set.cooldown_seconds # 0 /\ el < set.cooldown_seconds

\* a cooldown check that counts the skipped cycle as a failure
SkippedCountsFailure(c) == c.fail_count + 1

\* the failure counter a skipped cycle leaves
Skipped(c) == c.fail_count

\* a cycle that counts a trade although it booked none
EndCycleCountsTrade(fc, el, cyc) ==
    /\ fail_count' = fc
    /\ elapsed' = el
    /\ last_cycle' = cyc
    /\ trades_executed' = trades_executed + 1
    /\ UNCHANGED <<positions, total_invested, cached_balance, sim_balance>>

\* the cycle ends without booking a trade: counter fc, record cyc
EndCycle(fc, el, cyc) ==
    /\ fail_count' = fc
    /\ elapsed' = el
    /\ last_cycle' = cyc
    /\ UNCHANGED <<trades_executed, positions, total_invested, cached_balance,
                   sim_balance>>

\* cooldown: return before anything else
CooldownSkip(c) ==
    /\ EndCycle(Skipped(c), c.elapsed, Cycle("cooldown", c.slept, <<>>, 0, 0, {}, FALSE))
    /\ attempt' = Ungated
    /\ UNCHANGED <<today, state, last_call>>

\* a dry-run branch without the balance test
DryRunOverdraws(opp, c) ==
    /\ UNCHANGED <<today, state, last_call>>
    /\ attempt' = Ungated
    /\ Len(positions) < MaxPositions
    /\ sim_balance' = Some(Val(sim_balance) - opp.total_investment)
    /\ positions' = Append(positions, opp)
    /\ trades_executed' = trades_executed + 1
    /\ total_invested' = total_invested + opp.total_investment
    /\ fail_count' = c.fail_count
    /\ elapsed' = 0
    /\ last_cycle' = Cycle("sim_filled", c.slept, <<>>, 0, 0, {}, FALSE)
    /\ UNCHANGED cached_balance

\* the dry-run branch
DryRun(opp, c) ==
    /\ UNCHANGED <<today, state, last_call>>
    /\ attempt' = Ungated
    /\ IF Val(sim_balance) < opp.total_investment
         THEN EndCycle(c.fail_count + 1, 0,
                       Cycle("sim_insufficient", c.slept, <<>>, 0, 0, {}, FALSE))
         ELSE /\ Len(positions) < MaxPositions
              /\ sim_balance' = Some(Val(sim_balance) - opp.total_investment)
              /\ positions' = Append(positions, opp)
              /\ trades_executed' = trades_executed + 1
              /\ total_invested' = total_invested + opp.total_investment
              /\ fail_count' = c.fail_count
              /\ elapsed' = 0
              /\ last_cycle' = Cycle("sim_filled", c.slept, <<>>, 0, 0, {}, FALSE)
              /\ UNCHANGED cached_balance

\* get_balance: the cached balance, else GET /wallet, whose reply is w (None:
\* the request raised)
GetBalance(w) == IF cached_balance # None THEN cached_balance ELSE w

BalanceRequests == IF cached_balance # None THEN <<>> ELSE <<"GET /wallet">>

\* trading.py place_orders_fast.  bulk is what became of POST /orders/bulk:
\* "ok" (placed, successful response), "refused" (nothing placed, no successful
\* response) or "lost" (both legs placed, but the response failed or was not
\* successful); up and dn are the venue's replies for the two legs: "id" (order
\* accepted, reply with an order id), "noid" (no order, reply without id) or, in
\* the sequential fallback, "raise".
PlaceOrdersFast(bulk, up, dn) ==
    LET base == IF bulk = "lost" THEN 1 ELSE 0
        add(reply) == IF reply = "id" THEN 1 ELSE 0
    IN  IF bulk = "ok"
          THEN [raised |-> FALSE, up_id |-> up = "id", dn_id |-> dn = "id",
                up |-> add(up), down |-> add(dn),
                requests |-> <<"POST /orders/bulk">>]
        ELSE IF up = "raise"
          THEN [raised |-> TRUE, up_id |-> FALSE, dn_id |-> FALSE,
                up |-> base, down |-> base,
                requests |-> <<"POST /orders/bulk", "POST /orders">>]
        ELSE IF dn = "raise"
          THEN [raised |-> TRUE, up_id |-> FALSE, dn_id |-> FALSE,
                up |-> base + add(up), down |-> base,
                requests |-> <<"POST /orders/bulk", "POST /orders", "POST /orders">>]
        ELSE [raised |-> FALSE, up_id |-> up = "id", dn_id |-> dn = "id",
              up |-> base + add(up), down |-> base + add(dn),
              requests |-> <<"POST /orders/bulk", "POST /orders", "POST /orders">>]

BulkReplies == {"ok", "refused", "lost"}

LegReplies == {"id", "noid", "raise"}

\* what the polling of one leg comes to in execute_arbitrage: filled_size >=
\* req, filled_size < req, or a record whose filled_size cannot be read
FillReplies == {"filled", "unfilled", "error"}

PollRequests == <<"GET /orders/up", "GET /orders/down">>

CancelRequests == <<"POST /orders/up/cancel", "POST /orders/down/cancel">>

\* a cycle of the real mode that ends after the risk gate without a trade
EndGated(fc, st, gate, cyc) ==
    /\ EndCycle(fc, 0, cyc)
    /\ state' = st
    /\ last_call' = gate
    /\ UNCHANGED today

\* a cancel_orders whose first error ends the loop
CancelOrdersStopsOnError(up, dn) ==
    IF up = "raise"
      THEN [requests |-> <<CancelRequests[1]>>, cancels |-> {"up"}, raised |-> FALSE]
      ELSE [requests |-> CancelRequests, cancels |-> {"up", "down"}, raised |-> FALSE]

\* an order-id check that aborts only when both ids are missing
MissingBothIds(res) == ~res.up_id /\ ~res.dn_id

\* trading.py cancel_orders: one cancel request per id, each in its own
\* try/except; up and dn are the venue's replies ("ok" or "raise")
CancelOrders(up, dn) ==
    [requests |-> CancelRequests, cancels |-> {"up", "down"}, raised |-> FALSE]

CancelReplies == {"ok", "raise"}

\* if not up_id or not dn_id
MissingOrderId(res) == ~res.up_id \/ ~res.dn_id

\* the try block: submit both legs, poll them, settle
Submit(opp, c, st, gate, reqs0) ==
    \E bulk \in BulkReplies, up \in LegReplies, dn \in LegReplies :
      /\ bulk = "ok" => (up # "raise" /\ dn # "raise")
      /\ bulk # "ok" => (up # "noid" /\ dn # "noid")
      /\ up = "raise" => dn = "raise"      \* the second leg is not sent
      /\ LET res == PlaceOrdersFast(bulk, up, dn)
             reqs1 == reqs0 \o res.requests
         IN  IF res.raised
               THEN /\ EndGated(c.fail_count + 1, st, gate,
                                Cycle("submit_error", c.slept, reqs1, res.up, res.down, {}, FALSE))
                    /\ attempt' = Attempt(gate, FALSE, FALSE, <<>>, <<>>)
             ELSE IF MissingOrderId(res)
               THEN /\ EndGated(c.fail_count + 1, st, gate,
                                Cycle("no_order_id", c.slept, reqs1, res.up, res.down, {}, FALSE))
                    /\ attempt' = Attempt(gate, res.up_id, res.dn_id, <<>>, <<>>)
             ELSE \E fu \in FillReplies, fd \in FillReplies :
                    /\ fu = "error" => fd = "error"
                    /\ LET reqs2 == reqs1 \o PollRequests IN
                        IF fu = "error" \/ fd = "error"
                          THEN /\ EndGated(c.fail_count + 1, st, gate,
                                           Cycle("poll_error", c.slept, reqs2, res.up,
                                                 res.down, {}, FALSE))
                               /\ attempt' = Attempt(gate, res.up_id, res.dn_id, <<fu, fd>>, <<>>)
                        ELSE IF ~(fu = "filled" /\ fd = "filled")
                          THEN \E cu \in CancelReplies, cd \in CancelReplies :
                                 LET unwind == CancelOrders(cu, cd) IN
                                 /\ EndGated(c.fail_count + 1, st, gate,
                                             Cycle("partial", c.slept, reqs2 \o unwind.requests,
                                                   res.up, res.down, unwind.cancels,
                                                   unwind.raised))
                                 /\ attempt' = Attempt(gate, res.up_id, res.dn_id, <<fu, fd>>, <<cu, cd>>)
                        ELSE \E midnight \in BOOLEAN :
                               /\ Len(positions) < MaxPositions
                               /\ midnight => today < MaxBotDay
                               /\ today' = IF midnight THEN today + 1 ELSE today
                               /\ fail_count' = 0
                               /\ elapsed' = 0
                               /\ trades_executed' = trades_executed + 1
                               /\ total_invested' = total_invested + opp.total_investment
                               /\ positions' = Append(positions, opp)
                               /\ cached_balance' = None
                               /\ state' = RecordTradeResult(Rollover(st, today'),
                                                             opp.expected_profit)
                               /\ last_call' = Call("record_trade_result", today',
                                                    opp.expected_profit, NoArg, st, Allowed)
                               /\ last_cycle' = Cycle("filled", c.slept, reqs2, res.up,
                                                      res.down, {}, FALSE)
                               /\ attempt' = Attempt(gate, res.up_id, res.dn_id, <<fu, fd>>, <<>>)
                               /\ UNCHANGED sim_balance

WalletReplies == {None, Some(100000), Some(250000)}

\* a balance check that only asks for the investment itself
BalanceBelowNeed(bal, need) == bal < need

\* if bal < need * 1.1
BalanceTooLow(bal, need) == bal * 10 < need * 11

\* the real mode: balance check, risk gate, then the try block
RealMode(opp, c) ==
    \E w \in WalletReplies :
      LET got == GetBalance(w)
          need == opp.total_investment
      IN  IF got = None
            THEN /\ EndCycle(c.fail_count, 0,
                             Cycle("balance_error", c.slept, BalanceRequests, 0, 0, {}, TRUE))
                 /\ attempt' = Ungated
                 /\ UNCHANGED <<today, state, last_call>>
          ELSE IF BalanceTooLow(Val(got), need)
            THEN /\ EndCycle(c.fail_count + 1, 0,
                             Cycle("balance_low", c.slept, BalanceRequests, 0, 0, {}, FALSE))
                 /\ attempt' = Ungated
                 /\ UNCHANGED <<today, state, last_call>>
          ELSE LET st == Rollover(state, today)
                   reason == CanTrade(limits, st, need, Val(got))
                   gate == Call("can_trade", today, need, Val(got), state, reason)
               IN  IF reason # Allowed
                     THEN /\ EndGated(c.fail_count + 1, st, gate,
                                      Cycle("risk_blocked", c.slept, BalanceRequests, 0, 0,
                                            {}, FALSE))
                          /\ attempt' = Attempt(gate, FALSE, FALSE, <<>>, <<>>)
                     ELSE Submit(opp, c, st, gate, BalanceRequests)

\* execute_arbitrage(opp)
ExecuteArbitrage(opp) ==
    LET c == CoolOff(fail_count, elapsed) IN
    IF CooldownActive(settings, c.elapsed) THEN CooldownSkip(c)
    ELSE IF settings.dry_run THEN DryRun(opp, c)
    ELSE RealMode(opp, c)

-----------------------------------------------------------------------------
(* The bot driven by its monitor loop *)

BotEnvs ==
    {Env(None, None, cd, Some(FALSE), None, mps, mtd, None, None, None) :
       cd \in {None, Some(0)}, mps \in {None, Some(100000)}, mtd \in {None, Some(1)}}
    \cup {Env(None, None, Some(0), Some(FALSE), Some(50000), Some(100000), Some(2),
               None, None, None)}
    \cup {Env(None, None, cd, None, None, None, None, None, None, None) :
            cd \in {None, Some(0)}}

\* the sim_start_balance attribute of the settings object handed to the bot
SimStarts == {None, Some(150000)}

BotUpLadders == {<<Level(46, 5)>>, <<>>}

BotDownLadders == {<<Level(50, 5)>>}

InitBot ==
    /\ today = 0
    /\ env \in BotEnvs
    /\ \E sim \in SimStarts :
         /\ sim # None => Get(env.DRY_RUN, TRUE)
         /\ settings = [LoadSettings(env) EXCEPT !.sim_start_balance = sim]
    /\ constructed = Constructs(settings)
    /\ limits = BotRiskLimits(settings)
    /\ state = DailyRiskState(0)
    /\ last_call = NoCall
    /\ up_book = EmptyBook
    /\ down_book = EmptyBook
    /\ fill_call = NoFillCall
    /\ arb_call = NoArbCall
    /\ fail_count = 0
    /\ elapsed = MaxElapsed
    /\ trades_executed = 0
    /\ positions = <<>>
    /\ total_invested = 0
    /\ cached_balance = None
    /\ sim_balance = IF settings.dry_run THEN settings.sim_start_balance ELSE None
    /\ last_cycle = NoCycle
    /\ attempt = Ungated
    /\ IoIdle

\* a second passes
Tick ==
    /\ elapsed < MaxElapsed
    /\ elapsed' = elapsed + 1
    /\ UNCHANGED <<env, constructed, fail_count, trades_executed, positions,
                   total_invested, cached_balance, sim_balance, last_cycle, attempt>>
    /\ UNCHANGED ioVars
    /\ UNCHANGED riskVars
    /\ UNCHANGED fillVars

\* the UTC date changes between two iterations
Midnight ==
    /\ today < MaxBotDay
    /\ today' = today + 1
    /\ UNCHANGED <<limits, state, last_call>>
    /\ UNCHANGED fillVars
    /\ UNCHANGED botVars
    /\ UNCHANGED ioVars

\* one iteration of monitor: fetch both books (locals of check_arbitrage),
\* detect, execute
MonitorIteration ==
    /\ constructed
    /\ \E ua \in BotUpLadders, da \in BotDownLadders :
         LET found == CheckArbitrage(Book(ua), Book(da), settings) IN
         IF found # None
           THEN ExecuteArbitrage(Val(found))
           ELSE UNCHANGED <<today, state, last_call, fail_count, elapsed,
                            trades_executed, positions, total_invested,
                            cached_balance, sim_balance, last_cycle, attempt>>
    /\ UNCHANGED <<limits, env, constructed>>
    /\ UNCHANGED fillVars
    /\ UNCHANGED ioVars

NextBot ==
    \/ Tick
    \/ Midnight
    \/ MonitorIteration

SpecBot == InitBot /\ [][NextBot]_vars

-----------------------------------------------------------------------------
(* The fill estimator and the detector on arbitrary ask ladders *)

Prices == {40, 42, 46, 50}

LevelSizes == {5, 10}

OrderSizes == {1, 8, 20}

TargetPairCosts == {95000, 100000}

Levels == {Level(px, sz) : px \in Prices, sz \in LevelSizes}

\* every ladder of at most n levels, in any order of prices
RECURSIVE Ladders(_)
Ladders(n) ==
    IF n = 0 THEN {<<>>}
    ELSE LET shorter == Ladders(n - 1) IN
         shorter \cup {Append(l, lv) : l \in shorter, lv \in Levels}

DownLadders ==
    {<<>>, <<Level(50, 5)>>, <<Level(46, 10)>>, <<Level(40, 5), Level(50, 10)>>}

InitFill ==
    /\ today = 0
    /\ limits = RiskLimits(None, None, None, 0, 100)
    /\ state = DailyRiskState(0)
    /\ last_call = NoCall
    /\ settings \in {[DefaultSettings EXCEPT !.order_size = os, !.target_pair_cost = tpc] :
                       os \in OrderSizes, tpc \in TargetPairCosts}
    /\ up_book \in {Book(l) : l \in Ladders(MaxLevels)}
    /\ down_book \in {Book(l) : l \in DownLadders}
    /\ fill_call = NoFillCall
    /\ arb_call = NoArbCall
    /\ env = EmptyEnv
    /\ constructed = FALSE
    /\ fail_count = 0
    /\ elapsed = MaxElapsed
    /\ trades_executed = 0
    /\ positions = <<>>
    /\ total_invested = 0
    /\ cached_balance = None
    /\ sim_balance = None
    /\ last_cycle = NoCycle
    /\ attempt = Ungated
    /\ IoIdle

ComputeBuyFillCall(asks, size) ==
    /\ fill_call' = FillCall(asks, size, ComputeBuyFill(asks, size))
    /\ UNCHANGED <<settings, up_book, down_book, arb_call>>
    /\ UNCHANGED riskVars
    /\ UNCHANGED botVars
    /\ UNCHANGED ioVars

CheckArbitrageCall ==
    /\ arb_call' = ArbCall(up_book, down_book, CheckArbitrage(up_book, down_book, settings))
    /\ UNCHANGED <<settings, up_book, down_book, fill_call>>
    /\ UNCHANGED riskVars
    /\ UNCHANGED botVars
    /\ UNCHANGED ioVars

NextFill ==
    \/ \E size \in OrderSizes : ComputeBuyFillCall(up_book.asks, size)
    \/ \E size \in OrderSizes : ComputeBuyFillCall(down_book.asks, size)
    \/ CheckArbitrageCall

SpecFill == InitFill /\ [][NextFill]_vars

-----------------------------------------------------------------------------
(* Claims about _compute_buy_fill and check_arbitrage, checked under SpecFill *)

\* total size of the first k levels
RECURSIVE PrefixSize(_, _)
PrefixSize(asks, k) == IF k = 0 THEN 0 ELSE PrefixSize(asks, k - 1) + asks[k].sz

Depth(asks) == PrefixSize(asks, Len(asks))

\* the quantity a walk for `size` takes from level k
Taken(asks, size, k) ==
    LET left == size - PrefixSize(asks, k - 1) IN
    IF left <= 0 THEN 0 ELSE Min(left, asks[k].sz)

RECURSIVE TakenCost(_, _, _)
TakenCost(asks, size, k) ==
    IF k = 0 THEN 0 ELSE TakenCost(asks, size, k - 1) + Taken(asks, size, k) * asks[k].px

\* the first level at which the walk has reached `size`
LastTouched(asks, size) ==
    CHOOSE k \in 1..Len(asks) :
        /\ PrefixSize(asks, k) >= size
        /\ \A j \in 1..(k - 1) : PrefixSize(asks, j) < size

\* C7: the VWAP is monotonic in the requested size: for sizes 0 < s1 <= s2 that
\* both fill against the same ladder, the VWAP for s2 is not lower than for s1.
C7_VwapMonotonic ==
    fill_call.result # None =>
      \A s1 \in 1..fill_call.size :
        LET smaller == ComputeBuyFill(fill_call.asks, s1) IN
        smaller # None => FracLeq(Val(smaller).vwap, Val(fill_call.result).vwap)

\* C8: no result exactly when the total size of the ladder is below the target
\* size; otherwise the VWAP is the cost of the quantities taken, level by level
\* in the order given, over the target size, and worst is the price of the last
\* level touched.
C8_FillOrInsufficientDepth ==
    /\ (fill_call.result = None) <=> (Depth(fill_call.asks) < fill_call.size)
    /\ fill_call.result # None =>
         LET r == Val(fill_call.result) IN
         /\ r.vwap = Fraction(TakenCost(fill_call.asks, fill_call.size, Len(fill_call.asks)),
                              fill_call.size)
         /\ r.worst = fill_call.asks[LastTouched(fill_call.asks, fill_call.size)].px
    /\ fill_call.asks = <<Level(40, 5), Level(42, 10)>> =>
         /\ fill_call.size = 8 =>
              fill_call.result = Some([vwap |-> Fraction(326, 8), worst |-> 42])
         /\ fill_call.size = 20 => fill_call.result = None

\* the ladder [(0.40,5),(0.42,10)] walked for size 8: VWAP 3.26/8 = 0.4075
C8_Witness ==
    /\ fill_call.asks = <<Level(40, 5), Level(42, 10)>>
    /\ fill_call.size = 8
    /\ fill_call.result = Some([vwap |-> Fraction(326, 8), worst |-> 42])

HasDepth(book) == Depth(book.asks) >= settings.order_size

WorstOf(book) == book.asks[LastTouched(book.asks, settings.order_size)].px

BufferedCost == (WorstOf(arb_call.up) + WorstOf(arb_call.down)) * BufferFactor

\* C9: an opportunity is emitted exactly when both sides have the depth for the
\* order size and (worst_up + worst_down) x 1.004 does not exceed the target
\* pair cost; the opportunity carries total_cost = buffered cost, total_investment
\* = buffered cost x size and expected_profit = 2 x size - buffered cost x size.
C9_OpportunityOnWorstPrices ==
    /\ (arb_call.result # None) <=>
         (/\ HasDepth(arb_call.up) /\ HasDepth(arb_call.down)
          /\ BufferedCost <= settings.target_pair_cost)
    /\ arb_call.result # None =>
         LET o == Val(arb_call.result) IN
         /\ o.price_up = WorstOf(arb_call.up)
         /\ o.price_down = WorstOf(arb_call.down)
         /\ o.total_cost = BufferedCost
         /\ o.total_cost <= settings.target_pair_cost
         /\ o.order_size = settings.order_size
         /\ o.total_investment = BufferedCost * settings.order_size
         /\ o.expected_profit =
              2 * settings.order_size * MoneyUnit - BufferedCost * settings.order_size

\* worst prices 0.46 and 0.50 at ceiling 1.00, size 1: profit 1.03616
C9_Witness ==
    /\ arb_call.result # None
    /\ settings.order_size = 1
    /\ settings.target_pair_cost = 100000
    /\ Val(arb_call.result).price_up = 46
    /\ Val(arb_call.result).price_down = 50
    /\ Val(arb_call.result).total_cost = 96384
    /\ Val(arb_call.result).expected_profit = 103616

-----------------------------------------------------------------------------
(* Claims about the bot, checked under SpecBot *)

\* C3: a bot built from a configuration that sets no max daily loss, max trades
\* per day or max position size never has can_trade reject a trade on the trade
\* count, the position size or the daily loss.
C3_UnsetConfigLimitsNeverReject ==
    (constructed /\ last_call.op = "can_trade") =>
      /\ env.MAX_TRADES_PER_DAY = None => last_call.result # ReasonTradeCap
      /\ env.MAX_POSITION_SIZE = None => last_call.result # ReasonPosition
      /\ env.MAX_DAILY_LOSS = None => last_call.result # ReasonDailyLoss

\* what a skipped cycle must leave alone, and what it must not do
NothingDone ==
    /\ UNCHANGED <<fail_count, elapsed, positions, trades_executed, total_invested,
                   cached_balance, sim_balance, state, today>>
    /\ last_cycle'.slept = 0
    /\ last_cycle'.requests = <<>>
    /\ last_cycle'.placed = [up |-> 0, down |-> 0]

\* C10 as stated: called while the elapsed time is below the cooldown, the
\* cycle changes no state, takes no sleep and sends no request.
C10_CooldownSkipChangesNothing ==
    [][(CooldownActive(settings, elapsed) /\ MonitorIteration) => NothingDone]_vars

\* C10 amended: called with the failure counter below 3 while the elapsed time
\* is below the cooldown, the cycle changes no state, takes no sleep and sends
\* no request.
C10_CooldownSkipBelowThreshold ==
    [][(fail_count < FailThreshold /\ CooldownActive(settings, elapsed)
        /\ MonitorIteration) => NothingDone]_vars

\* a cycle skipped by the cooldown, after a trade and with failures counted
C10_Witness ==
    /\ last_cycle.outcome = "cooldown"
    /\ last_cycle.slept = 0
    /\ fail_count \in 1..(FailThreshold - 1)
    /\ trades_executed > 0
    /\ CooldownActive(settings, elapsed)

\* the requests that submit orders, poll them, cancel them
SubmitRequests == {"POST /orders/bulk", "POST /orders"}

Sent(kinds) == \E i \in DOMAIN last_cycle.requests : last_cycle.requests[i] \in kinds

\* a real-mode cycle has run to its end
RealCycle == constructed /\ ~settings.dry_run /\ last_cycle.outcome # "none"

\* the cycle passed the balance check and the risk gate
GatesPassed ==
    /\ attempt.gate.op = "can_trade"
    /\ attempt.gate.result = Allowed
    /\ attempt.gate.balance * 10 >= attempt.gate.arg * 11

\* the failure counter the cycle runs with: the one it found, or 0 after the
\* cooling-off
RunningCount ==
    IF attempt.found.fail_count >= FailThreshold THEN 0 ELSE attempt.found.fail_count

\* no trade is booked on the bot
NoTradeBooked ==
    /\ trades_executed = attempt.found.trades_executed
    /\ positions = attempt.found.positions
    /\ total_invested = attempt.found.total_invested

\* the RiskManager's day as the cycle's can_trade call leaves it, nothing recorded
NoPnlRecorded ==
    state \in {attempt.found.state, Rollover(attempt.found.state, attempt.found.today)}

\* a check of the cycle failed: the balance check, or the risk gate
GateFailed ==
    \/ last_cycle.outcome = "balance_low"
    \/ attempt.gate.op = "can_trade" /\ attempt.gate.result # Allowed

\* C11 as stated: orders are submitted only after the balance check and
\* can_trade both passed in the same cycle; when either fails, the cycle ends
\* with the failure counter increased by exactly one, no order submitted and
\* no trade, position or risk PnL recorded.
C11_GatesBeforeOrders ==
    RealCycle =>
      /\ Sent(SubmitRequests) => GatesPassed
      /\ GateFailed =>
           /\ fail_count = attempt.found.fail_count + 1
           /\ ~Sent(SubmitRequests)
           /\ last_cycle.placed = [up |-> 0, down |-> 0]
           /\ NoTradeBooked
           /\ NoPnlRecorded

\* C11 amended: as C11, with exactly one failure counted on the counter the
\* cycle runs with, which is 0 when the call found it at 3 or more and cooled
\* off first.
C11_GatesBeforeOrdersOneFailure ==
    RealCycle =>
      /\ Sent(SubmitRequests) => GatesPassed
      /\ GateFailed =>
           /\ fail_count = RunningCount + 1
           /\ ~Sent(SubmitRequests)
           /\ last_cycle.placed = [up |-> 0, down |-> 0]
           /\ NoTradeBooked
           /\ NoPnlRecorded

\* a cycle stopped by the balance check with one failure already counted,
\* after a trade
C11_Witness ==
    /\ RealCycle
    /\ last_cycle.outcome = "balance_low"
    /\ attempt.found.fail_count = 1
    /\ fail_count = 2
    /\ trades_executed = 1

PollRequestKinds == {"GET /orders/up", "GET /orders/down"}

\* the submission returned, and extract_order_id gave no id for a leg
IdMissing ==
    /\ GatesPassed
    /\ last_cycle.outcome # "submit_error"
    /\ ~(attempt.ids.up /\ attempt.ids.down)

\* C12 as stated: a submission response without an order id for either leg
\* aborts the cycle: the failure counter is increased by exactly one, no fill
\* is polled, and no trade, position, invested amount or risk PnL is recorded.
C12_MissingIdAborts ==
    (RealCycle /\ IdMissing) =>
      /\ fail_count = attempt.found.fail_count + 1
      /\ ~Sent(PollRequestKinds)
      /\ attempt.fills = <<>>
      /\ NoTradeBooked
      /\ NoPnlRecorded

\* C12 amended: as C12, with exactly one failure counted on the counter the
\* cycle runs with, which is 0 when the call found it at 3 or more and cooled
\* off first.
C12_MissingIdAbortsOneFailure ==
    (RealCycle /\ IdMissing) =>
      /\ fail_count = RunningCount + 1
      /\ ~Sent(PollRequestKinds)
      /\ attempt.fills = <<>>
      /\ NoTradeBooked
      /\ NoPnlRecorded

\* the yes leg got an id, the no leg did not
C12_Witness ==
    /\ RealCycle
    /\ GatesPassed
    /\ last_cycle.outcome # "submit_error"
    /\ attempt.ids = [up |-> TRUE, down |-> FALSE]
    /\ last_cycle.placed = [up |-> 1, down |-> 0]
    /\ fail_count = 1

CancelRequestKinds == {"POST /orders/up/cancel", "POST /orders/down/cancel"}

\* both legs were polled and one of them is under-filled
UnderFilled ==
    /\ Len(attempt.fills) = 2
    /\ \A i \in 1..2 : attempt.fills[i] \in {"filled", "unfilled"}
    /\ \E i \in 1..2 : attempt.fills[i] = "unfilled"

\* the cancel of both ids is attempted, and nothing leaves the cycle
BothCancelsAttempted ==
    /\ last_cycle.cancels = {"up", "down"}
    /\ \A k \in CancelRequestKinds :
         \E i \in DOMAIN last_cycle.requests : last_cycle.requests[i] = k
    /\ ~last_cycle.escaped

\* C13 as stated: with a leg under-filled after polling, both order ids are
\* cancelled (an error on one id neither prevents the attempt on the other nor
\* leaves the cycle), exactly one failure is counted, and trades_executed,
\* positions, total_invested and the RiskManager's trade count and net PnL
\* are unchanged.
C13_PartialUnwind ==
    (RealCycle /\ UnderFilled) =>
      /\ BothCancelsAttempted
      /\ fail_count = RunningCount + 1
      /\ NoTradeBooked
      /\ state.trades_count = attempt.found.state.trades_count
      /\ state.net_pnl = attempt.found.state.net_pnl

\* C13 amended: as C13, with the RiskManager's trade count and net PnL as the
\* daily rollover of the cycle's can_trade call leaves them: unchanged on the
\* same UTC date, reset to zero on a new one.
C13_PartialUnwindNothingRecorded ==
    (RealCycle /\ UnderFilled) =>
      /\ BothCancelsAttempted
      /\ fail_count = RunningCount + 1
      /\ NoTradeBooked
      /\ state = Rollover(attempt.found.state, attempt.found.today)

\* the yes leg filled, the no leg did not, and the first cancel raised
C13_Witness ==
    /\ RealCycle
    /\ attempt.fills = <<"filled", "unfilled">>
    /\ attempt.cancel_replies = <<"raise", "ok">>
    /\ last_cycle.cancels = {"up", "down"}
    /\ fail_count = 1

\* both legs were polled and filled_size >= requested size on each
BothFilled == attempt.fills = <<"filled", "filled">>

\* the opportunity the cycle executed, as booked
Booked == positions[Len(positions)]

\* the RiskManager's day on which record_trade_result books: the day can_trade
\* left, rolled over if the date changed in between
BookingDay == Rollover(last_call.before, last_call.date)

\* C14: with both legs fully filled the cycle settles as a success: the failure
\* counter becomes 0, trades_executed increases by one, the opportunity is
\* appended to positions, total_invested grows by its total investment, the
\* cached balance is invalidated so that the next balance check fetches again,
\* and record_trade_result is called once with its expected profit.
C14_SuccessSettles ==
    (RealCycle /\ BothFilled) =>
      /\ fail_count = 0
      /\ trades_executed = attempt.found.trades_executed + 1
      /\ Len(positions) = Len(attempt.found.positions) + 1
      /\ SubSeq(positions, 1, Len(attempt.found.positions)) = attempt.found.positions
      /\ Booked.total_investment = attempt.gate.arg
      /\ total_invested = attempt.found.total_invested + Booked.total_investment
      /\ cached_balance = None
      /\ BalanceRequests = <<"GET /wallet">>
      /\ last_call.op = "record_trade_result"
      /\ last_call.arg = Booked.expected_profit
      /\ last_call.before = Rollover(attempt.found.state, attempt.found.today)
      /\ state.trades_count = BookingDay.trades_count + 1
      /\ state.net_pnl = BookingDay.net_pnl + Booked.expected_profit

\* a second trade settles, on the next UTC date, after two counted failures
C14_Witness ==
    /\ RealCycle
    /\ BothFilled
    /\ attempt.found.fail_count = 2
    /\ fail_count = 0
    /\ trades_executed = 2
    /\ state.net_pnl = 103616

\* an error was raised while the cycle ran
ErrorRaised ==
    \/ last_cycle.outcome \in {"balance_error", "submit_error", "poll_error"}
    \/ \E i \in DOMAIN attempt.cancel_replies : attempt.cancel_replies[i] = "raise"

\* C15: no error raised while an execution cycle runs (balance fetch, risk
\* check, submission, fill polling, cancel) leaves execute_arbitrage: the cycle
\* ends with exactly one counted failure.
C15_NoErrorEscapes ==
    (RealCycle /\ ErrorRaised) =>
      /\ ~last_cycle.escaped
      /\ fail_count = RunningCount + 1

\* an execution cycle has run
Cycled == constructed /\ last_cycle.outcome # "none"

\* C23: a cycle entered with the failure counter at 3 or more sleeps 60
\* seconds before any other step and goes on with the counter at 0, so the
\* cooldown check, the balance check, the risk check and the submission never
\* run with a counter of 3 or more; no other cycle sleeps.
C23_CoolingOffFirst ==
    Cycled =>
      /\ (attempt.found.fail_count >= FailThreshold) <=> (last_cycle.slept = CoolingOffSleep)
      /\ last_cycle.slept \in {0, CoolingOffSleep}
      /\ fail_count \in {0, RunningCount, RunningCount + 1}
      /\ attempt.found.fail_count >= FailThreshold =>
           /\ fail_count <= 1
           /\ settings.cooldown_seconds <= CoolingOffSleep => last_cycle.outcome # "cooldown"

\* a real cycle entered with three failures: it slept, checked the balance
\* with the counter at 0 and counted one failure
C23_Witness ==
    /\ RealCycle
    /\ attempt.found.fail_count = FailThreshold
    /\ last_cycle.slept = CoolingOffSleep
    /\ last_cycle.outcome = "balance_low"
    /\ fail_count = 1

\* the bot trades for real under a daily trade cap of at least one
Capped == constructed /\ ~settings.dry_run /\ settings.max_trades_per_day >= 1

\* C26: with max_trades_per_day set to N >= 1, the number of trades the
\* RiskManager has recorded for its UTC day never exceeds N over any sequence
\* of real cycles: every record_trade_result follows, in its cycle, a can_trade
\* that passed with fewer than N trades on its day, also when the date changes
\* between the two.
C26_TradeCapHolds ==
    Capped =>
      /\ state.trades_count <= settings.max_trades_per_day
      /\ last_call.op = "record_trade_result" => state.date = last_call.date
      /\ last_cycle.outcome = "filled" =>
           /\ GatesPassed
           /\ last_call.op = "record_trade_result"
           /\ last_call.before = Rollover(attempt.gate.before, attempt.gate.date)
           /\ last_call.before.trades_count < settings.max_trades_per_day

\* a trade gated on one UTC date and recorded on the next, at a cap of one
C26_Witness ==
    /\ Capped
    /\ settings.max_trades_per_day = 1
    /\ last_cycle.outcome = "filled"
    /\ attempt.gate.date = 0
    /\ last_call.date = 1
    /\ state = [DailyRiskState(1) EXCEPT !.trades_count = 1, !.net_pnl = last_call.arg]

\* the settings the configuration check accepts for the detector
ValidTradingParameters ==
    /\ settings.order_size > 0
    /\ settings.target_pair_cost > 0
    /\ settings.target_pair_cost <= MoneyUnit

\* C27: with the target pair cost in (0, 1] and the order size > 0, every
\* opportunity the bot has executed has an expected profit >= its order size
\* > 0, so the RiskManager's net PnL for the day is never negative and
\* can_trade never rejects on the daily loss.
C27_ProfitNeverNegative ==
    (constructed /\ ValidTradingParameters) =>
      /\ \A i \in DOMAIN positions :
           /\ positions[i].order_size > 0
           /\ positions[i].expected_profit >= positions[i].order_size * MoneyUnit
      /\ state.net_pnl >= 0
      /\ last_call.op = "record_trade_result" => last_call.arg >= settings.order_size * MoneyUnit
      /\ last_call.result # ReasonDailyLoss
      /\ attempt.gate.result # ReasonDailyLoss

\* with a daily loss limit set, can_trade passes the daily-loss check on a
\* day that already has a trade and a positive net PnL
C27_Witness ==
    /\ constructed
    /\ ValidTradingParameters
    /\ limits.max_daily_loss = Some(50000)
    /\ last_call.op = "can_trade"
    /\ last_call.result = Allowed
    /\ last_call.before.date = last_call.date
    /\ last_call.before.trades_count = 1
    /\ last_call.before.net_pnl > 0

\* the total investment of the recorded positions
RECURSIVE InvestedIn(_)
InvestedIn(ps) ==
    IF ps = <<>> THEN 0 ELSE ps[Len(ps)].total_investment + InvestedIn(SubSeq(ps, 1, Len(ps) - 1))

\* the cycle recorded a position
PositionRecorded == last_cycle.outcome \in {"filled", "sim_filled"}

\* C28: after any sequence of cycles in either mode positions has only been
\* appended to, trades_executed is the number of positions and total_invested
\* is the sum of their total investment; a cycle that ends in a skip or a
\* failure changes none of the three.
C28_BookkeepingConsistent ==
    constructed =>
      /\ trades_executed = Len(positions)
      /\ total_invested = InvestedIn(positions)
      /\ Len(positions) >= Len(attempt.found.positions)
      /\ SubSeq(positions, 1, Len(attempt.found.positions)) = attempt.found.positions
      /\ IF PositionRecorded
           THEN Len(positions) = Len(attempt.found.positions) + 1
           ELSE NoTradeBooked

\* two trades booked, then a cycle that failed on an under-filled leg
C28_Witness ==
    /\ constructed
    /\ Len(positions) = 2
    /\ trades_executed = 2
    /\ total_invested = 2 * 96384
    /\ last_cycle.outcome = "partial"
    /\ attempt.found.positions = positions

\* an execution cycle of a dry-run bot that gets past the cooldown check
DryCycle ==
    /\ constructed
    /\ settings.dry_run
    /\ ~CooldownActive(settings, CoolOff(fail_count, elapsed).elapsed)
    /\ MonitorIteration
    /\ last_cycle'.outcome \in {"sim_insufficient", "sim_filled"}

\* the cycle touches neither the venue nor the RiskManager
NothingSent ==
    /\ last_cycle'.requests = <<>>
    /\ last_cycle'.placed = [up |-> 0, down |-> 0]
    /\ last_cycle'.cancels = {}
    /\ attempt'.gate = NoCall
    /\ UNCHANGED <<today, limits, state, last_call, cached_balance>>

\* the cycle simulates the trade: the simulated balance pays for the position
\* appended
Simulated ==
    /\ Len(positions') = Len(positions) + 1
    /\ SubSeq(positions', 1, Len(positions)) = positions
    /\ Val(sim_balance) >= positions'[Len(positions')].total_investment
    /\ sim_balance' = Some(Val(sim_balance) - positions'[Len(positions')].total_investment)
    /\ trades_executed' = trades_executed + 1
    /\ total_invested' = total_invested + positions'[Len(positions')].total_investment

\* the opportunity costs more than the simulated balance holds
Unaffordable ==
    \E ua \in BotUpLadders, da \in BotDownLadders :
      LET found == CheckArbitrage(Book(ua), Book(da), settings) IN
      found # None /\ Val(sim_balance) < Val(found).total_investment

FailedAfterSubmit == {"no_order_id", "submit_error", "poll_error", "partial"}

\* C30: no order is left open by a failed cycle without a cancel attempt: when
\* a cycle ends as a failure after the venue accepted an order of it (missing
\* id on the other leg, error in the second sequential submission, error while
\* polling, under-fill), a cancel has been attempted for every leg the venue
\* accepted an order for.
C30_FailedCycleCancels ==
    (RealCycle /\ last_cycle.outcome \in FailedAfterSubmit) =>
      /\ last_cycle.placed.up > 0 => "up" \in last_cycle.cancels
      /\ last_cycle.placed.down > 0 => "down" \in last_cycle.cancels

\* C31: within one execution cycle each leg is placed on the venue at most
\* once: the sequential fallback is issued only when the bulk request placed
\* no order, so a bulk request that the venue executed but whose response
\* failed or was not successful never leads to a second order for a leg.
C31_EachLegPlacedOnce ==
    RealCycle =>
      /\ last_cycle.placed.up <= 1
      /\ last_cycle.placed.down <= 1

-----------------------------------------------------------------------------
(* wait_for_terminal_order polling one order *)

\* the risk manager, the detector and the bot, not in use
BotIdle ==
    /\ today = 0
    /\ limits = RiskLimits(None, None, None, 0, 100)
    /\ state = DailyRiskState(0)
    /\ last_call = NoCall
    /\ settings = DefaultSettings
    /\ up_book = EmptyBook
    /\ down_book = EmptyBook
    /\ fill_call = NoFillCall
    /\ arb_call = NoArbCall
    /\ env = EmptyEnv
    /\ constructed = FALSE
    /\ fail_count = 0
    /\ elapsed = MaxElapsed
    /\ trades_executed = 0
    /\ positions = <<>>
    /\ total_invested = 0
    /\ cached_balance = None
    /\ sim_balance = None
    /\ last_cycle = NoCycle
    /\ attempt = Ungated

RequestedSizes == {1, 2, 3}

FilledSizes == 0..3

\* what one GET /orders/{id} comes to: None when the request raises, else the
\* record read
PollReplies ==
    {None} \cup {Some(OrderRecord(f, st)) :
                   f \in FilledSizes, st \in {"open"} \cup TerminalStatuses}

InitWait ==
    /\ BotIdle
    /\ IoIdle

\* wait_for_terminal_order(settings, order_id, requested_size)
WaitForTerminalOrder(req) ==
    /\ wait.pc \in {"idle", "returned"}
    /\ wait' = Waiting("polling", req, 0, None, None, "none")
    /\ UNCHANGED <<riskVars, fillVars, botVars, streamVars>>

\* one pass of the while loop: the request, the two return tests, the sleep
Poll(reply) ==
    /\ wait.pc = "polling"
    /\ wait.polls < MaxPolls
    /\ wait' =
         IF reply = None
           THEN [wait EXCEPT !.polls = @ + 1]
         ELSE IF Val(reply).filled_size >= wait.requested_size
           THEN [wait EXCEPT !.pc = "returned", !.polls = @ + 1, !.last_seen = reply,
                             !.result = reply, !.why = "filled"]
         ELSE IF Val(reply).status \in TerminalStatuses
           THEN [wait EXCEPT !.pc = "returned", !.polls = @ + 1, !.last_seen = reply,
                             !.result = reply, !.why = "status"]
         ELSE [wait EXCEPT !.polls = @ + 1, !.last_seen = reply]
    /\ UNCHANGED <<riskVars, fillVars, botVars, streamVars>>

\* the while condition fails: time.time() - start >= timeout
TimeoutElapsed ==
    /\ wait.pc = "polling"
    /\ wait.polls >= 1
    /\ wait' = [wait EXCEPT !.pc = "returned", !.result = Some(AtTimeout(wait.last_seen)),
                            !.why = "timeout"]
    /\ UNCHANGED <<riskVars, fillVars, botVars, streamVars>>

NextWait ==
    \/ \E req \in RequestedSizes : WaitForTerminalOrder(req)
    \/ \E reply \in PollReplies : Poll(reply)
    \/ TimeoutElapsed

SpecWait == InitWait /\ [][NextWait]_vars

\* C16: wait_for_terminal_order returns only when the filled size has reached
\* the requested size, the status is canceled, rejected or expired, or the
\* timeout has elapsed; a return by timeout gives the synthetic record with
\* status timeout and filled size 0, whatever earlier polls have seen.
C16_TimeoutIsSynthetic ==
    wait.pc = "returned" =>
      /\ wait.why = "filled" => Val(wait.result).filled_size >= wait.requested_size
      /\ wait.why = "status" => Val(wait.result).status \in TerminalStatuses
      /\ wait.why \in {"filled", "status", "timeout"}
      /\ wait.why = "timeout" => wait.result = Some(TimeoutRecord)

-----------------------------------------------------------------------------
(* MarketWssClient.run under an arbitrary consumer *)

BidPayloads == {Absent, Unreadable, Payload("levels", <<<<40, 5>>>>)}

AskPayloads ==
    {Absent, Payload("levels", <<<<46, 5>>>>), Payload("levels", <<<<46, 0>>, <<50, 5>>>>)}

\* the messages the stream may deliver
Messages ==
    {Message("object", "orderbookUpdate", a, b, k) :
       a \in AssetIds, b \in BidPayloads, k \in AskPayloads}
    \cup {Message("unparseable", "", "missing", Absent, Absent),
          Message("not_object", "", "missing", Absent, Absent),
          Message("object", "trade", "yes", Absent, Payload("levels", <<<<46, 5>>>>)),
          Message("object", "orderbookUpdate", "missing", Absent, Payload("levels", <<<<46, 5>>>>)),
          Message("object", "orderbookUpdate", "unknown", Absent, Payload("levels", <<<<46, 5>>>>)),
          Message("object", "orderbookUpdate", "unhashable", Absent,
                  Payload("levels", <<<<46, 5>>>>))}

InitWss ==
    /\ BotIdle
    /\ IoIdle

\* self._connect() and the subscription: both done, or one of them raised
Connect(subscribed) ==
    /\ wss.pc = "connecting"
    /\ wss' = IF subscribed
                THEN [wss EXCEPT !.pc = "streaming", !.backoff = MinReconnect]
                ELSE [wss EXCEPT !.pc = "sleeping"]
    /\ UNCHANGED <<riskVars, fillVars, botVars, wait, shutdown, mon>>

\* the next message of `async for msg in ws`
Receive(msg) ==
    /\ wss.pc = "streaming"
    /\ LET r == HandleMessage(msg, wss.order_books)
           last == Handled(msg, r.books # wss.order_books, r.outcome)
       IN  wss' = [wss EXCEPT !.order_books = r.books, !.last = last,
                              !.pc = CASE r.outcome = "dropped" -> "streaming"
                                       [] r.outcome = "notified" -> "yielded"
                                       [] r.outcome = "aborted" -> "sleeping"]
    /\ UNCHANGED <<riskVars, fillVars, botVars, wait, shutdown, mon>>

\* the connection fails while the loop waits for a message
ReadError ==
    /\ wss.pc = "streaming"
    /\ wss' = [wss EXCEPT !.pc = "sleeping"]
    /\ UNCHANGED <<riskVars, fillVars, botVars, wait, shutdown, mon>>

\* the server closes the connection cleanly: `async for` ends, the while loop
\* goes round
StreamEnds ==
    /\ wss.pc = "streaming"
    /\ wss' = [wss EXCEPT !.pc = "connecting"]
    /\ UNCHANGED <<riskVars, fillVars, botVars, wait, shutdown, mon>>

\* asyncio.sleep(backoff) is over; the backoff grows
WakeUp(jitter) ==
    /\ wss.pc = "sleeping"
    /\ wss' = [wss EXCEPT !.pc = "connecting", !.backoff = BackoffAfter(@, jitter)]
    /\ UNCHANGED <<riskVars, fillVars, botVars, wait, shutdown, mon>>

\* the consumer asks for the next notification
Resume ==
    /\ wss.pc = "yielded"
    /\ wss' = [wss EXCEPT !.pc = "streaming"]
    /\ UNCHANGED <<riskVars, fillVars, botVars, wait, shutdown, mon>>

\* the task is cancelled: CancelledError at the await the generator is in.
\* Inside the try it is caught and run returns; in the sleep of the except
\* clause it leaves run.
Cancel ==
    /\ wss.pc \in {"connecting", "streaming", "sleeping"}
    /\ wss' = [wss EXCEPT !.pc = IF @ = "sleeping" THEN "raised" ELSE "returned"]
    /\ UNCHANGED <<riskVars, fillVars, botVars, wait, shutdown, mon>>

\* SIGINT or SIGTERM: GracefulShutdown._set_flag
Signal ==
    /\ ~shutdown
    /\ shutdown' = TRUE
    /\ UNCHANGED <<riskVars, fillVars, botVars, wait, wss, mon>>

NextWss ==
    \/ \E subscribed \in BOOLEAN : Connect(subscribed)
    \/ \E msg \in Messages : Receive(msg)
    \/ ReadError
    \/ StreamEnds
    \/ \E jitter \in Jitters : WakeUp(jitter)
    \/ Resume
    \/ Cancel
    \/ Signal

SpecWss == InitWss /\ [][NextWss]_vars

\* the backoff is within its limits, and at the minimum while subscribed
BackoffInRange ==
    /\ wss.backoff >= MinReconnect
    /\ wss.backoff <= MaxReconnect
    /\ wss.pc \in {"streaming", "yielded"} => wss.backoff = MinReconnect

\* a failure's sleep ends: the backoff does not shrink, and is 1.5 times itself
\* plus a jitter in [0, 1], or the cap
BackoffGrows ==
    (wss.pc = "sleeping" /\ wss'.pc = "connecting") =>
      /\ wss'.backoff >= wss.backoff
      /\ \/ wss'.backoff = MaxReconnect
         \/ /\ 2 * wss'.backoff - 3 * wss.backoff >= 0
            /\ 2 * wss'.backoff - 3 * wss.backoff <= 2 * BackoffUnit

\* the backoff shrinks only in the step that subscribes, to the minimum
BackoffResets ==
    /\ (wss.pc = "connecting" /\ wss'.pc = "streaming") => wss'.backoff = MinReconnect
    /\ wss'.backoff < wss.backoff => (wss.pc = "connecting" /\ wss'.pc = "streaming")

\* C17: the reconnect backoff always lies between the minimum and the maximum
\* delay, does not decrease across consecutive failures (each multiplies it by
\* 1.5 and adds a jitter in [0,1], capped at the maximum), and is reset to the
\* minimum as soon as a connection has been subscribed.
C17_BackoffBounded ==
    /\ []BackoffInRange
    /\ [][BackoffGrows /\ BackoffResets]_vars

\* reconnecting at the cap after a connection that had delivered an update
C17_Witness ==
    /\ wss.pc = "connecting"
    /\ wss.backoff = MaxReconnect
    /\ wss.last.outcome = "notified"

\* a message that is no update of a tracked asset
Malformed(msg) ==
    \/ msg.json # "object"
    \/ msg.type # "orderbookUpdate"
    \/ msg.asset \notin AssetIds

\* C18: a malformed stream message is silently dropped: it changes no order
\* book, yields no notification, and neither aborts the connection nor
\* triggers a reconnect.
C18_MalformedDropped ==
    (wss.last.outcome # "none" /\ Malformed(wss.last.msg)) =>
      /\ wss.last.outcome = "dropped"
      /\ ~wss.last.changed

\* C19: once the stop signal is raised while run sleeps between reconnect
\* attempts or is in its read loop, run goes to no further connection attempt.
C19_StopEndsRun ==
    [][(shutdown /\ wss.pc \in {"sleeping", "streaming"}) => wss'.pc # "connecting"]_vars

\* the ladder of a side after an update: the entries it carries with a
\* positive size, or the previous ladder when it carries none that parse
Carried(old, payload) ==
    IF payload.kind = "levels"
      THEN SelectSeq(payload.levels, LAMBDA lv : lv[2] > 0)
      ELSE old

\* C24: a valid orderbookUpdate message for a tracked asset yields one
\* notification naming that asset and changes only what it carries: a side
\* that is absent or does not parse keeps its ladder, and the books of the
\* other tracked assets are unchanged.
C24_ValidUpdateNotifies ==
    [][wss.pc = "streaming" =>
         \A msg \in Messages :
           (~Malformed(msg) /\ Receive(msg)) =>
             /\ wss'.pc = "yielded"
             /\ wss'.last.outcome = "notified"
             /\ wss'.last.msg.asset = msg.asset
             /\ wss'.order_books[msg.asset].bids =
                  Carried(wss.order_books[msg.asset].bids, msg.bids)
             /\ wss'.order_books[msg.asset].asks =
                  Carried(wss.order_books[msg.asset].asks, msg.asks)
             /\ \A a \in AssetIds \ {msg.asset} :
                  wss'.order_books[a] = wss.order_books[a]]_vars

\* an update for the yes asset with unreadable bids and new asks is notified:
\* the bids stored before are still there, and so is the book of the no asset
C24_Witness ==
    /\ wss.pc = "yielded"
    /\ wss.last.outcome = "notified"
    /\ wss.last.msg.asset = "yes"
    /\ wss.last.msg.bids = Unreadable
    /\ wss.last.msg.asks = Payload("levels", <<<<46, 0>>, <<50, 5>>>>)
    /\ wss.order_books["yes"] = OrderBookSide(<<<<40, 5>>>>, <<<<50, 5>>>>)
    /\ wss.order_books["no"].asks = <<<<46, 5>>>>

\* C32: the client never reconnects without waiting: whenever run comes to a
\* new connection attempt after a connection ended (connect failure, read
\* error, or the server closing the stream cleanly), it comes from the sleep
\* of the current backoff, which is at least the minimum delay.
C32_SleepsBeforeReconnect ==
    [][(wss.pc # "connecting" /\ wss'.pc = "connecting") =>
         (wss.pc = "sleeping" /\ wss.backoff >= MinReconnect)]_vars

-----------------------------------------------------------------------------
(* SimpleArbitrageBot.monitor in its two drive modes *)

Intervals == {0, 1}

\* the messages the monitored stream delivers
MonitorMessages ==
    {Message("object", "orderbookUpdate", "yes", Absent, Payload("levels", <<<<46, 5>>>>)),
     Message("object", "orderbookUpdate", "no", Absent, Payload("levels", <<<<46, 5>>>>)),
     Message("unparseable", "", "missing", Absent, Absent),
     Message("not_object", "", "missing", Absent, Absent)}

\* the two legs execute_arbitrage waits for
Legs == 2

InitMonitor ==
    /\ BotIdle
    /\ IoIdle

\* monitor(interval_seconds) with settings.use_wss: the streaming branch
\* awaits client.run(), the polling branch is at its while condition
StartMonitor(use_wss, interval) ==
    /\ mon.pc = "idle"
    /\ mon' = IF use_wss
                THEN Monitor("wss", interval, "waiting", 0, 0)
                ELSE Monitor("poll", interval, "testing", 0, 0)
    /\ UNCHANGED <<riskVars, fillVars, botVars, wait, shutdown, wss>>

\* client.run() runs while monitor awaits its next notification
StreamRuns == mon.mode = "wss" /\ mon.pc = "waiting"

\* `async for asset_id, event in client.run()` gets a notification: the body
\* starts
Notified ==
    /\ StreamRuns
    /\ wss.pc = "yielded"
    /\ mon' = [mon EXCEPT !.pc = "iterating",
                          !.late = IF shutdown THEN @ + 1 ELSE @]
    /\ UNCHANGED <<riskVars, fillVars, botVars, wait, shutdown, wss>>

\* `while not GracefulShutdown.SHUTDOWN:`
TestFlag ==
    /\ mon.pc = "testing"
    /\ mon' = [mon EXCEPT !.pc = IF shutdown THEN "returned" ELSE "iterating"]
    /\ UNCHANGED <<riskVars, fillVars, botVars, wait, shutdown, wss>>

\* the body is in execute_arbitrage and calls wait_for_terminal_order for one
\* leg's order
WaitForLeg(req) ==
    /\ mon.pc = "iterating"
    /\ mon.legs < Legs
    /\ wait.pc \in {"idle", "returned"}
    /\ wait' = Waiting("polling", req, 0, None, None, "none")
    /\ mon' = [mon EXCEPT !.legs = @ + 1]
    /\ UNCHANGED <<riskVars, fillVars, botVars, shutdown, wss>>

\* the rest of the polling branch's pass: the optional sleep
AfterPass(m) == [m EXCEPT !.pc = IF m.interval > 0 THEN "sleeping" ELSE "testing",
                          !.legs = 0]

\* detection, execution and redeem are over. The streaming branch tests the
\* flag and returns or asks the stream for the next notification
BodyReturns ==
    /\ mon.pc = "iterating"
    /\ wait.pc \in {"idle", "returned"}
    /\ wait' = NotWaiting
    /\ IF mon.mode = "wss"
         THEN IF shutdown
                THEN /\ mon' = [mon EXCEPT !.pc = "returned", !.legs = 0]
                     /\ wss' = wss
                ELSE /\ mon' = [mon EXCEPT !.pc = "waiting", !.legs = 0]
                     /\ wss' = [wss EXCEPT !.pc = "streaming"]
         ELSE /\ mon' = AfterPass(mon)
              /\ wss' = wss
    /\ UNCHANGED <<riskVars, fillVars, botVars, shutdown>>

\* check_arbitrage or execute_arbitrage raises: the polling branch logs it,
\* the streaming branch has no handler
BodyRaises ==
    /\ mon.pc = "iterating"
    /\ wait.pc \in {"idle", "returned"}
    /\ wait' = NotWaiting
    /\ mon' = IF mon.mode = "wss"
                THEN [mon EXCEPT !.pc = "raised", !.legs = 0]
                ELSE AfterPass(mon)
    /\ UNCHANGED <<riskVars, fillVars, botVars, shutdown, wss>>

\* asyncio.sleep(interval_seconds) is over
SleepOver ==
    /\ mon.pc = "sleeping"
    /\ mon' = [mon EXCEPT !.pc = "testing"]
    /\ UNCHANGED <<riskVars, fillVars, botVars, wait, shutdown, wss>>

\* the steps the program takes by itself; messages, failures and signals
\* come as they may
Progress ==
    /\ WF_vars(StreamRuns /\ \E subscribed \in BOOLEAN : Connect(subscribed))
    /\ WF_vars(StreamRuns /\ \E jitter \in Jitters : WakeUp(jitter))
    /\ WF_vars(Notified)
    /\ WF_vars(TestFlag)
    /\ WF_vars(mon.pc = "iterating" /\ \E reply \in PollReplies : Poll(reply))
    /\ WF_vars(mon.pc = "iterating" /\ TimeoutElapsed)
    /\ WF_vars(BodyReturns \/ BodyRaises)
    /\ WF_vars(SleepOver)

NextMonitor ==
    \/ \E use_wss \in BOOLEAN, interval \in Intervals : StartMonitor(use_wss, interval)
    \/ StreamRuns /\ \E subscribed \in BOOLEAN : Connect(subscribed)
    \/ StreamRuns /\ \E msg \in MonitorMessages : Receive(msg)
    \/ StreamRuns /\ ReadError
    \/ StreamRuns /\ StreamEnds
    \/ StreamRuns /\ \E jitter \in Jitters : WakeUp(jitter)
    \/ Notified
    \/ TestFlag
    \/ \E req \in RequestedSizes : WaitForLeg(req)
    \/ mon.pc = "iterating" /\ \E reply \in PollReplies : Poll(reply)
    \/ mon.pc = "iterating" /\ TimeoutElapsed
    \/ BodyReturns
    \/ BodyRaises
    \/ SleepOver
    \/ Signal

SpecMonitor == InitMonitor /\ [][NextMonitor]_vars /\ Progress

\* the monitor has been started and has not ended
Monitoring == mon.pc \notin {"idle", "returned", "raised"}

\* C20: in both drive modes, once the shutdown flag is set the monitor loop
\* eventually returns, without raising and having started at most one further
\* iteration, wherever it is suspended when the flag is set: waiting for a
\* stream message, while the stream reconnects, or in the sleeps of
\* order-status polling.
C20_ShutdownReturns ==
    /\ (shutdown /\ Monitoring) ~> (mon.pc = "returned")
    /\ [](mon.late <= 1)

\* C21: in both drive modes an exception raised inside one monitor iteration
\* (book fetch, detection, execution) stays in that iteration: no step of an
\* iteration ends the monitor by an exception.
C21_IterationErrorsIsolated ==
    [][mon.pc = "iterating" => mon'.pc # "raised"]_vars

-----------------------------------------------------------------------------
(* The order books the detection of a monitor iteration runs on *)

\* the "asks" of a GET /orderbook/{token_id} reply: None when the reply has
\* no such key
VenueAsks ==
    {None, Some(<<Level(46, 5)>>), Some(<<Level(50, 5)>>),
     Some(<<Level(40, 0), Level(46, 5)>>)}

\* get_order_book, as far as check_arbitrage reads it: res.get("asks", [])
GetOrderBook(res) == Book(IF res = None THEN <<>> ELSE Val(res))

\* the messages the stream delivers while the books are watched
DetectMessages ==
    {Message("object", "orderbookUpdate", "yes", Absent, Payload("levels", <<<<46, 5>>>>)),
     Message("object", "orderbookUpdate", "yes", Absent,
             Payload("levels", <<<<46, 0>>, <<50, 5>>>>)),
     Message("object", "orderbookUpdate", "no", Absent, Payload("levels", <<<<46, 5>>>>)),
     Message("unparseable", "", "missing", Absent, Absent)}

\* one body run of monitor as far as the books go: self.check_arbitrage()
\* without arguments fetches both books with get_order_book and detects on
\* them; then the streaming branch tests the flag and asks for the next
\* notification, the polling branch ends its pass
Detect(ur, dr) ==
    /\ mon.pc = "iterating"
    /\ up_book' = GetOrderBook(ur)
    /\ down_book' = GetOrderBook(dr)
    /\ arb_call' = ArbCall(up_book', down_book', CheckArbitrage(up_book', down_book', settings))
    /\ IF mon.mode = "wss"
         THEN IF shutdown
                THEN /\ mon' = [mon EXCEPT !.pc = "returned"]
                     /\ wss' = wss
                ELSE /\ mon' = [mon EXCEPT !.pc = "waiting"]
                     /\ wss' = [wss EXCEPT !.pc = "streaming"]
         ELSE /\ mon' = AfterPass(mon)
              /\ wss' = wss
    /\ UNCHANGED <<settings, fill_call, wait, shutdown>>
    /\ UNCHANGED riskVars
    /\ UNCHANGED botVars

NextDetect ==
    \/ \E use_wss \in BOOLEAN, interval \in Intervals : StartMonitor(use_wss, interval)
    \/ StreamRuns /\ Connect(TRUE)
    \/ StreamRuns /\ \E msg \in DetectMessages : Receive(msg)
    \/ Notified
    \/ TestFlag
    \/ \E ur \in VenueAsks, dr \in VenueAsks : Detect(ur, dr)
    \/ SleepOver
    \/ Signal

SpecDetect == InitMonitor /\ [][NextDetect]_vars

\* every level of a streamed ladder has a positive size
StreamedSizesPositive(levels) == \A i \in DOMAIN levels : levels[i][2] > 0

\* every level of a ladder handed to the engine has a positive size
HandedSizesPositive(book) == \A i \in DOMAIN book.asks : book.asks[i].sz > 0

\* C22: every (price, size) entry held in an order book has size > 0, on the
\* streamed and on the polled path: the stored ladders hold no level whose size
\* is not positive, and the ladders handed to the arbitrage engine never
\* contain a zero-size level.
C22_NoZeroSizeLevels ==
    /\ \A a \in AssetIds :
         /\ StreamedSizesPositive(wss.order_books[a].bids)
         /\ StreamedSizesPositive(wss.order_books[a].asks)
    /\ HandedSizesPositive(arb_call.up)
    /\ HandedSizesPositive(arb_call.down)

\* the streamed side of an asset as the engine reads a book
AsBook(side) == Book([i \in DOMAIN side.asks |-> Level(side.asks[i][1], side.asks[i][2])])

\* C25: in streaming-driven mode the books on which detection runs after a
\* notification are the books the streaming client holds at that notification.
C25_DetectsOnStreamBooks ==
    [][(mon.mode = "wss" /\ mon.pc = "iterating" /\ mon'.pc # "iterating") =>
         /\ arb_call'.up = AsBook(wss.order_books["yes"])
         /\ arb_call'.down = AsBook(wss.order_books["no"])]_vars

-----------------------------------------------------------------------------
(* The RiskManager under an arbitrary caller *)

LossLimits == {None, Some(0), Some(-50)}

TradeCaps == {None, Some(0), Some(2)}

PositionCaps == {None, Some(0), Some(40)}

MinBalances == {0, 100}

Utilizations == {50, 100}

TradeSizes == {10, 60}

Balances == {50, 200}

Profits == {-30, 30}

InitRisk ==
    /\ today = 0
    /\ limits \in {RiskLimits(mdl, mtd, mps, mbr, mbu) :
                     mdl \in LossLimits, mtd \in TradeCaps, mps \in PositionCaps,
                     mbr \in MinBalances, mbu \in Utilizations}
    /\ state = DailyRiskState(0)
    /\ last_call = NoCall
    /\ settings = DefaultSettings
    /\ up_book = EmptyBook
    /\ down_book = EmptyBook
    /\ fill_call = NoFillCall
    /\ arb_call = NoArbCall
    /\ env = EmptyEnv
    /\ constructed = FALSE
    /\ fail_count = 0
    /\ elapsed = MaxElapsed
    /\ trades_executed = 0
    /\ positions = <<>>
    /\ total_invested = 0
    /\ cached_balance = None
    /\ sim_balance = None
    /\ last_cycle = NoCycle
    /\ attempt = Ungated
    /\ IoIdle

\* the UTC date changes
NextDay ==
    /\ today < MaxDay
    /\ today' = today + 1
    /\ UNCHANGED <<limits, state, last_call>>
    /\ UNCHANGED fillVars
    /\ UNCHANGED botVars
    /\ UNCHANGED ioVars

CanTradeCall(trade_size, current_balance) ==
    LET st == Rollover(state, today) IN
    /\ state' = st
    /\ last_call' = Call("can_trade", today, trade_size, current_balance, state,
                       CanTrade(limits, st, trade_size, current_balance))
    /\ UNCHANGED <<today, limits>>
    /\ UNCHANGED fillVars
    /\ UNCHANGED botVars
    /\ UNCHANGED ioVars

RecordTradeResultCall(profit) ==
    LET st == Rollover(state, today) IN
    /\ st.trades_count < MaxTradesCount
    /\ Abs(st.net_pnl + profit) <= MaxAbsPnl
    /\ state' = RecordTradeResult(st, profit)
    /\ last_call' = Call("record_trade_result", today, profit, NoArg, state,
                       Allowed)
    /\ UNCHANGED <<today, limits>>
    /\ UNCHANGED fillVars
    /\ UNCHANGED botVars
    /\ UNCHANGED ioVars

AdjustActualPnlCall(realized_profit) ==
    LET st == Rollover(state, today) IN
    /\ Abs(st.net_pnl + realized_profit) <= MaxAbsPnl
    /\ state' = AdjustActualPnl(st, realized_profit)
    /\ last_call' = Call("adjust_actual_pnl", today, realized_profit, NoArg, state,
                       Allowed)
    /\ UNCHANGED <<today, limits>>
    /\ UNCHANGED fillVars
    /\ UNCHANGED botVars
    /\ UNCHANGED ioVars

GetDailyStatsCall ==
    LET st == Rollover(state, today) IN
    /\ state' = st
    /\ last_call' = StatsCall(today, state, GetDailyStats(st))
    /\ UNCHANGED <<today, limits>>
    /\ UNCHANGED fillVars
    /\ UNCHANGED botVars
    /\ UNCHANGED ioVars

NextRisk ==
    \/ NextDay
    \/ \E s \in TradeSizes, b \in Balances : CanTradeCall(s, b)
    \/ \E p \in Profits : RecordTradeResultCall(p)
    \/ \E p \in Profits : AdjustActualPnlCall(p)
    \/ GetDailyStatsCall

SpecRisk == InitRisk /\ [][NextRisk]_vars

-----------------------------------------------------------------------------
(* Claims about the RiskManager, checked under SpecRisk *)

IsCanTrade == last_call.op = "can_trade"

\* the five checks of can_trade, on the arguments of the last call and the
\* daily state that call left
FailsBalance == last_call.balance < limits.min_balance_required

FailsUtilization == last_call.arg * 100 > last_call.balance * limits.max_balance_utilization

FailsTradeCap ==
    \E n \in limits.max_trades_per_day : state.trades_count >= n

FailsPosition ==
    \E m \in limits.max_position_size : last_call.arg > m

FailsDailyLoss ==
    \E l \in limits.max_daily_loss : state.net_pnl < -Abs(l)

\* C1: can_trade evaluates balance, utilization, trade count, position size and
\* daily loss in this order and returns the rejection of the first check that
\* fails, allowing the trade only when none fails; a balance below the minimum
\* is rejected for every trade size and every risk state.
C1_FirstFailingCheckWins ==
    IsCanTrade =>
      /\ (last_call.result = ReasonBalance) <=> FailsBalance
      /\ (last_call.result = ReasonUtilization) <=> (~FailsBalance /\ FailsUtilization)
      /\ (last_call.result = ReasonTradeCap) <=>
            (~FailsBalance /\ ~FailsUtilization /\ FailsTradeCap)
      /\ (last_call.result = ReasonPosition) <=>
            (~FailsBalance /\ ~FailsUtilization /\ ~FailsTradeCap /\ FailsPosition)
      /\ (last_call.result = ReasonDailyLoss) <=>
            (~FailsBalance /\ ~FailsUtilization /\ ~FailsTradeCap /\ ~FailsPosition
             /\ FailsDailyLoss)
      /\ (last_call.result = Allowed) <=>
            ~(FailsBalance \/ FailsUtilization \/ FailsTradeCap \/ FailsPosition
              \/ FailsDailyLoss)

\* a call in which the trade count, the position size and the daily loss all
\* fail at once, and the trade-count rejection is the one returned
C1_Witness ==
    /\ IsCanTrade
    /\ ~FailsBalance /\ ~FailsUtilization
    /\ FailsTradeCap /\ FailsPosition /\ FailsDailyLoss
    /\ last_call.result = ReasonTradeCap

\* C2: an unset (None) optional limit never rejects a trade, whatever the trade
\* count, the net PnL and the trade size; None is not the limit zero.
C2_UnsetLimitNeverRejects ==
    IsCanTrade =>
      /\ limits.max_trades_per_day = None => last_call.result # ReasonTradeCap
      /\ limits.max_position_size = None => last_call.result # ReasonPosition
      /\ limits.max_daily_loss = None => last_call.result # ReasonDailyLoss
      /\ (limits.max_trades_per_day = None /\ limits.max_position_size = None
          /\ limits.max_daily_loss = None /\ ~FailsBalance /\ ~FailsUtilization)
            => last_call.result = Allowed

\* a trade allowed with all three limits unset, after trades and with a loss
C2_Witness ==
    /\ IsCanTrade
    /\ limits.max_trades_per_day = None
    /\ limits.max_position_size = None
    /\ limits.max_daily_loss = None
    /\ state.trades_count > 0 /\ state.net_pnl < 0 /\ last_call.arg > 0
    /\ last_call.result = Allowed

\* C4: with max_daily_loss set, a can_trade call made on the stored UTC date while
\* the net PnL is below -|L| is rejected for the daily loss when the earlier
\* checks pass; a can_trade call that finds another stored date sees net PnL 0
\* and trade count 0, and accepts the trade size and balance that the stored
\* day's state rejected for the daily loss.
C4_DailyLossUntilRollover ==
    IsCanTrade =>
      /\ (/\ last_call.before.date = last_call.date
          /\ \E l \in limits.max_daily_loss : last_call.before.net_pnl < -Abs(l)
          /\ ~FailsBalance /\ ~FailsUtilization /\ ~FailsTradeCap /\ ~FailsPosition)
            => last_call.result = ReasonDailyLoss
      /\ (/\ last_call.before.date # last_call.date
          /\ CanTrade(limits, last_call.before, last_call.arg, last_call.balance)
               = ReasonDailyLoss)
            => /\ state.net_pnl = 0
               /\ state.trades_count = 0
               /\ last_call.result = Allowed

\* a trade accepted on a new day that the previous day's loss was blocking
C4_Witness ==
    /\ IsCanTrade
    /\ last_call.before.date < last_call.date
    /\ \E l \in limits.max_daily_loss : last_call.before.net_pnl < -Abs(l)
    /\ CanTrade(limits, last_call.before, last_call.arg, last_call.balance)
         = ReasonDailyLoss
    /\ last_call.result = Allowed

CountDelta == IF last_call.op = "record_trade_result" THEN 1 ELSE 0

PnlDelta ==
    IF last_call.op \in {"record_trade_result", "adjust_actual_pnl"}
      THEN last_call.arg ELSE 0

\* C5: every RiskManager method leaves the stored date equal to the UTC date of
\* the call; it starts from a zeroed record exactly when the stored date
\* differed, and a call that finds the stored date equal to the current date
\* resets neither the trade count nor the net PnL.
C5_RolloverExactlyOnDateChange ==
    last_call.op # "none" =>
      /\ state.date = last_call.date
      /\ state.invested = 0
      /\ last_call.before.date = last_call.date =>
            /\ state.trades_count = last_call.before.trades_count + CountDelta
            /\ state.net_pnl = last_call.before.net_pnl + PnlDelta
      /\ last_call.before.date # last_call.date =>
            /\ state.trades_count = CountDelta
            /\ state.net_pnl = PnlDelta
      /\ last_call.op = "get_daily_stats" =>
            last_call.stats = [date |-> last_call.date, trades |-> state.trades_count,
                               net_pnl |-> state.net_pnl]

\* a second call on the same date that kept the count and the PnL of the first
C5_Witness ==
    /\ last_call.op = "get_daily_stats"
    /\ last_call.before.date = last_call.date
    /\ last_call.date > 0
    /\ last_call.before.trades_count > 0
    /\ state.trades_count = last_call.before.trades_count
    /\ state.net_pnl = last_call.before.net_pnl
    /\ state.net_pnl # 0

====
